---- MODULE Spec2Model ----
(***************************************************************************)
(* Ingestion reconciliation pipeline of the re:Post crawler: the           *)
(* connection gateway (BaseRepository), the question / tag / association   *)
(* repositories, the run recorder and the Lambda handler that drives one   *)
(* run.  The relational store is shared by every run; each run (one Lambda *)
(* container) owns its own connection pool.                                *)
(***************************************************************************)
EXTENDS Integers, Sequences, FiniteSets, TLC

\* ---------------------------------------------------------------- bounds
MaxCalls == 2     \* top-level calls one run issues in sequence
MaxFaults == 2    \* infrastructure failures injected in one behaviour
MaxBatch == 2     \* records fetched from one endpoint
MaxClock == 1     \* wall-clock readings

\* ---------------------------------------------------- program constants
PoolSize == 5

\* Concurrently executing runs (Lambda invocations).
Runs == {1, 2}

\* ------------------------------------------------------------ input data
ExtIds == {"q1", "q2"}
TagNames == {"a", "b", "c"}
Null == "NULL"

\* Columns of the questions table that update() may write (field_map).
field_map ==
    {"title", "description", "language", "url", "view_count", "vote_count",
     "answers_count", "has_accepted_answer", "posted_at"}

\* A question URL as its "/"-separated segments.
QuestionUrl(e, lang) ==
    IF lang = "zh-Hant"
    THEN <<"https:", "", "repost.aws", "zh-Hant", "questions", e>>
    ELSE <<"https:", "", "repost.aws", "questions", e>>

\* url.split("/")[-1]
LastSegment(url) == url[Len(url)]

\* The record fetch_questions builds for one question card.
FetchedRecord(e, lang, views, tags) ==
    [url |-> QuestionUrl(e, lang), title |-> "title", has_accepted_answer |-> FALSE,
     tags |-> tags, timestamp |-> "ts", language |-> lang, answers_count |-> 0,
     vote_count |-> 0, view_count |-> views]

\* The same record with the optional description attached.
WithDescription(rec) == ("description" :> "text") @@ rec

\* Records a caller of the repository may pass: fetched ones and partial ones.
PartialRecords ==
    {[question_id |-> e, view_count |-> 5] : e \in ExtIds}
    \cup {[question_id |-> e] : e \in ExtIds}
    \cup {[question_id |-> "q2", title |-> "new", has_accepted_answer |-> TRUE]}
    \cup {[url |-> QuestionUrl("q2", "en"), title |-> "t2", language |-> "en",
           posted_at |-> "2024"]}
    \cup {[title |-> "orphan"]}

RepoRecords ==
    {FetchedRecord(e, "en", 1, <<>>) : e \in ExtIds} \cup PartialRecords

\* ------------------------------------------------------------------ state
VARIABLES
    questions,    \* rows of table questions
    tags,         \* rows of table tags
    qtags,        \* rows of table question_tags, <<question id, tag id>>
    execs,        \* rows of table crawler_executions, in insertion order
    run,          \* per run: control point and local variables
    checkedOut,   \* per run: connections taken from its pool and not returned
    faults,       \* infrastructure failures injected so far
    clock         \* last wall-clock reading

vars == <<questions, tags, qtags, execs, run, checkedOut, faults, clock>>
store == <<questions, tags, qtags, execs>>

Get(d, k, default) == IF k \in DOMAIN d THEN d[k] ELSE default

Ids(tbl) == {row.id : row \in tbl}

\* AUTO_INCREMENT primary key of the next inserted row.
NextId(tbl) ==
    IF tbl = {} THEN 1
    ELSE 1 + (CHOOSE i \in Ids(tbl) : \A j \in Ids(tbl) : j <= i)

\* VALUES (...) of QuestionsRepository.create.
InsertedQuestion(id, qd) ==
    [id |-> id,
     question_id |-> qd.question_id,
     title |-> qd.title,
     description |-> Get(qd, "description", Null),
     language |-> qd.language,
     url |-> qd.url,
     view_count |-> Get(qd, "view_count", 0),
     vote_count |-> Get(qd, "vote_count", 0),
     answers_count |-> Get(qd, "answers_count", 0),
     has_accepted_answer |-> Get(qd, "has_accepted_answer", FALSE),
     posted_at |-> Get(qd, "posted_at", Null)]

\* Keys create() reads with question_data[...]: a missing one raises KeyError.
CreateRequired == {"question_id", "title", "language", "url"}

\* The columns update() puts in its SET list: field_map keys present in the record.
UpdateFields(qd) == field_map \cap DOMAIN qd

\* Variant: a column whose key is absent is reset to its insert default.
SetColumn_default(row, qd, c) ==
    IF c \in DOMAIN qd THEN qd[c]
    ELSE InsertedQuestion(0, [question_id |-> "", title |-> "", language |-> "",
                              url |-> <<>>])[c]

SetColumn(row, qd, c) == IF c \in UpdateFields(qd) THEN qd[c] ELSE row[c]

\* UPDATE questions SET <fields> WHERE id = row.id
UpdatedQuestion(row, qd) ==
    [id |-> row.id,
     question_id |-> row.question_id,
     title |-> SetColumn(row, qd, "title"),
     description |-> SetColumn(row, qd, "description"),
     language |-> SetColumn(row, qd, "language"),
     url |-> SetColumn(row, qd, "url"),
     view_count |-> SetColumn(row, qd, "view_count"),
     vote_count |-> SetColumn(row, qd, "vote_count"),
     answers_count |-> SetColumn(row, qd, "answers_count"),
     has_accepted_answer |-> SetColumn(row, qd, "has_accepted_answer"),
     posted_at |-> SetColumn(row, qd, "posted_at")]

\* results[0] if results else None, on a result set kept as a set of rows.
First(rows) == CHOOSE row \in rows : TRUE

\* Variant: the write gateway returns the affected-row count only.
WriteResult_rowcount(lastrowid, rowcount) == rowcount

\* return cursor.lastrowid or cursor.rowcount
WriteResult(lastrowid, rowcount) == IF lastrowid # 0 THEN lastrowid ELSE rowcount

\* ------------------------------------------------------ initial store
InitQuestion(i, e) ==
    InsertedQuestion(i, ("question_id" :> e) @@ FetchedRecord(e, "en", 0, <<>>))

InitQuestionTables ==
    {{}, {InitQuestion(1, "q1")}, {InitQuestion(1, "q1"), InitQuestion(2, "q2")}}

InitTagTables ==
    {{},
     {[id |-> 1, name |-> "a"]},
     {[id |-> 1, name |-> "a"], [id |-> 2, name |-> "b"]},
     {[id |-> 1, name |-> "a"], [id |-> 2, name |-> "b"], [id |-> 3, name |-> "c"]}}

\* Local variables of one run, before its first call.
IdleRun ==
    [pc |-> "idle", top |-> "none", calls |-> 0,
     \* BaseRepository._execute_*
     op |-> "none", ret |-> "none", err |-> "none", conn |-> FALSE,
     pending |-> FALSE, persisted |-> FALSE, exc |-> "none",
     rows |-> {}, trows |-> {}, ids |-> {}, val |-> 0,
     \* the repositories
     qd |-> <<>>, existing |-> {}, name |-> "", qid |-> 0, desired |-> {},
     to_add |-> {}, to_remove |-> {},
     result |-> 0, ok |-> FALSE,
     \* process_question
     question_id |-> 0, tag_ids |-> {}, ti |-> 0, success |-> FALSE,
     \* lambda_handler
     start_time |-> 0, all_questions |-> <<>>, english_questions |-> 0,
     chinese_questions |-> 0, i |-> 0, processed_count |-> 0, s3_success |-> FALSE,
     execution_data |-> <<>>, statusCode |-> 0,
     \* history of the call in progress
     injected |-> 0,        \* failures injected into it
     attempted |-> <<>>,    \* batch positions handed to process_question
     raised |-> {},         \* batch positions whose processing raised
     conn_lost |-> FALSE,   \* get_connection() raised while a record was in process
     rec_failed |-> FALSE,  \* a database call failed for the record in process
     audit_failed |-> 0,    \* audit inserts of the run that failed
     base |-> 0,            \* audit rows that existed when the run started
     before |-> <<>>,       \* the tables when process_question was called
     \* the call before this one
     prev |-> [op |-> "none", key |-> "", result |-> 0, exc |-> "none"]]

Init ==
    /\ questions \in InitQuestionTables
    /\ tags \in InitTagTables
    /\ \E own \in SUBSET ({1} \X Ids(tags)), other \in SUBSET ({2} \X ({1} \cap Ids(tags))) :
          qtags = (own \cup other) \cap (Ids(questions) \X Ids(tags))
    /\ execs = <<>>
    /\ run = [r \in Runs |-> IdleRun]
    /\ checkedOut = [r \in Runs |-> 0]
    /\ faults = 0
    /\ clock = 0

\* The locals of the repository methods and of the gateway, out of scope once
\* the method has returned.
RepoLocals ==
    [op |-> "none", ret |-> "none", err |-> "none", conn |-> FALSE, pending |-> FALSE,
     persisted |-> FALSE, rows |-> {}, trows |-> {}, ids |-> {}, val |-> 0,
     qd |-> <<>>, existing |-> {}, name |-> "", qid |-> 0, desired |-> {},
     to_add |-> {}, to_remove |-> {}, result |-> 0, ok |-> FALSE,
     question_id |-> 0, tag_ids |-> {}, ti |-> 0]

\* Assign the fields of u to the locals of run r.
Upd(r, u) == run' = [run EXCEPT ![r] = u @@ @]

\* ------------------------------------------- store: uniqueness constraints
\* Variant: question_id carries no unique constraint.
QuestionIdTaken_unchecked(key) == FALSE

\* questions.question_id UNIQUE: an insert of a taken identifier is refused.
QuestionIdTaken(key) == \E row \in questions : row.question_id = key

\* tags.name UNIQUE: an insert of a taken name is refused.
TagNameTaken(n) == \E row \in tags : row.name = n

\* The insert duplicates a committed unique key.
DuplicateKey(r) ==
    CASE run[r].op = "ins_q" -> QuestionIdTaken(run[r].qd.question_id)
      [] run[r].op = "ins_tag" -> TagNameTaken(run[r].name)
      [] OTHER -> FALSE

\* The insert waits on the uncommitted insert of the same unique key by another run.
LockWait(r) ==
    \E o \in Runs \ {r} :
        /\ run[o].pending
        /\ run[o].op = run[r].op
        /\ \/ run[r].op = "ins_q" /\ run[o].qd.question_id = run[r].qd.question_id
           \/ run[r].op = "ins_tag" /\ run[o].name = run[r].name

\* ------------------------------------------------- BaseRepository (gateway)
Queries == {"sel_q", "sel_tag", "sel_qt"}
BulkWrites == {"ins_qt"}

MayFail == faults < MaxFaults

\* The caller's locals when it enters _execute_query / _execute_write / _execute_many.
GwCall(op, ret, err) ==
    [pc |-> "gw_get", op |-> op, ret |-> ret, err |-> err,
     conn |-> FALSE, pending |-> FALSE, persisted |-> FALSE, exc |-> "none"]

\* The call is made while lambda_handler has a record in process_question.
InRecord(r) ==
    run[r].top = "lambda_handler" /\ run[r].i \in 1..Len(run[r].all_questions)

\* A write statement issued for the record in process is failing.
RecordFailure(r) ==
    run[r].rec_failed \/ (InRecord(r) /\ run[r].op \notin Queries)

\* connection = self.pool.get_connection()
GwGetOk(r) ==
    /\ run[r].pc = "gw_get"
    /\ checkedOut[r] < PoolSize
    /\ checkedOut' = [checkedOut EXCEPT ![r] = @ + 1]
    /\ Upd(r, [pc |-> "gw_exec", conn |-> TRUE])
    /\ UNCHANGED <<store, faults, clock>>

\* get_connection() raises: connection stays None, the except clause re-raises.
GwGetFail(r) ==
    /\ run[r].pc = "gw_get"
    /\ MayFail \/ checkedOut[r] >= PoolSize
    /\ faults' = IF checkedOut[r] >= PoolSize THEN faults ELSE faults + 1
    /\ Upd(r, [pc |-> "gw_close", exc |-> "ConnectionUnavailable",
               injected |-> run[r].injected + 1, rec_failed |-> RecordFailure(r),
               conn_lost |-> run[r].conn_lost \/ InRecord(r)])
    /\ UNCHANGED <<store, checkedOut, clock>>

\* cursor.execute(query); return cursor.fetchall()
GwExecQuery(r) ==
    /\ run[r].pc = "gw_exec"
    /\ run[r].op \in Queries
    /\ Upd(r, [pc |-> "gw_close",
               rows |-> IF run[r].op = "sel_q"
                        THEN {row \in questions : row.question_id = run[r].qd.question_id}
                        ELSE {},
               trows |-> IF run[r].op = "sel_tag"
                         THEN {row \in tags : row.name = run[r].name}
                         ELSE {},
               ids |-> IF run[r].op = "sel_qt"
                       THEN {p[2] : p \in {x \in qtags : x[1] = run[r].qid}}
                       ELSE {}])
    /\ UNCHANGED <<store, checkedOut, faults, clock>>

\* cursor.execute / executemany of a write: the statement's effect is uncommitted.
GwExecWrite(r) ==
    /\ run[r].pc = "gw_exec"
    /\ run[r].op \notin Queries
    /\ IF DuplicateKey(r)
       THEN Upd(r, [pc |-> "gw_rollback", exc |-> "QueryFailed",
                    rec_failed |-> RecordFailure(r)])
       ELSE /\ ~LockWait(r)
            /\ Upd(r, [pc |-> "gw_commit", pending |-> TRUE])
    /\ UNCHANGED <<store, checkedOut, faults, clock>>

\* The statement fails (timeout, lost connection, server error); executemany
\* may fail part-way, with rows already written in the open transaction.
GwExecFail(r) ==
    /\ run[r].pc = "gw_exec"
    /\ MayFail
    /\ faults' = faults + 1
    /\ \E partway \in (IF run[r].op \in BulkWrites THEN BOOLEAN ELSE {FALSE}) :
          Upd(r, [pc |-> IF run[r].op \in Queries THEN "gw_close" ELSE "gw_rollback",
                  exc |-> "QueryFailed", pending |-> partway,
                  injected |-> run[r].injected + 1, rec_failed |-> RecordFailure(r)])
    /\ UNCHANGED <<store, checkedOut, clock>>

\* The rows the pending statement of run r changes, table by table.
CommittedQuestions(r) ==
    CASE run[r].op = "ins_q" ->
           questions \cup {InsertedQuestion(NextId(questions), run[r].qd)}
      [] run[r].op = "upd_q" ->
           {IF row.id = First(run[r].existing).id
            THEN UpdatedQuestion(row, run[r].qd) ELSE row : row \in questions}
      [] OTHER -> questions

CommittedTags(r) ==
    IF run[r].op = "ins_tag"
    THEN tags \cup {[id |-> NextId(tags), name |-> run[r].name]}
    ELSE tags

\* Variant: the DELETE lacks its question_id condition.
CommittedQtags_anyq(r) ==
    CASE run[r].op = "del_qt" -> {p \in qtags : p[2] \notin run[r].to_remove}
      [] run[r].op = "ins_qt" -> qtags \cup ({run[r].qid} \X run[r].to_add)
      [] OTHER -> qtags

\* DELETE ... WHERE question_id = q AND tag_id IN (...); INSERT IGNORE ... VALUES (q, t)
CommittedQtags(r) ==
    CASE run[r].op = "del_qt" -> qtags \ ({run[r].qid} \X run[r].to_remove)
      [] run[r].op = "ins_qt" -> qtags \cup ({run[r].qid} \X run[r].to_add)
      [] OTHER -> qtags

\* VALUES (...) of CrawlerExecutionsRepository.create
InsertedExecution(id, execution_data) ==
    [id |-> id,
     start_time |-> execution_data.start_time,
     end_time |-> execution_data.end_time,
     questions_processed |-> execution_data.questions_processed,
     english_questions |-> execution_data.english_questions,
     chinese_questions |-> execution_data.chinese_questions,
     status |-> execution_data.status,
     error_message |-> Get(execution_data, "error_message", Null),
     duration_ms |-> execution_data.duration_ms,
     output_file |-> execution_data.output_file]

CommittedExecs(r) ==
    IF run[r].op = "ins_exec"
    THEN Append(execs, InsertedExecution(Len(execs) + 1, run[r].execution_data))
    ELSE execs

lastrowid(r) ==
    CASE run[r].op = "ins_q" -> NextId(questions)
      [] run[r].op = "ins_tag" -> NextId(tags)
      [] run[r].op = "ins_exec" -> Len(execs) + 1
      [] OTHER -> 0

rowcount(r) ==
    CASE run[r].op = "upd_q" ->
           Cardinality({row \in questions : UpdatedQuestion(row, run[r].qd) # row
                                            /\ row.id = First(run[r].existing).id})
      [] run[r].op = "del_qt" -> Cardinality(qtags \cap ({run[r].qid} \X run[r].to_remove))
      [] run[r].op = "ins_qt" -> Cardinality(({run[r].qid} \X run[r].to_add) \ qtags)
      [] OTHER -> 1

\* connection.commit(); return cursor.lastrowid or cursor.rowcount / cursor.rowcount
GwCommit(r) ==
    /\ run[r].pc = "gw_commit"
    /\ questions' = CommittedQuestions(r)
    /\ tags' = CommittedTags(r)
    /\ qtags' = CommittedQtags(r)
    /\ execs' = CommittedExecs(r)
    /\ Upd(r, [pc |-> "gw_close", pending |-> FALSE, persisted |-> TRUE,
               val |-> IF run[r].op \in BulkWrites THEN rowcount(r)
                       ELSE WriteResult(lastrowid(r), rowcount(r))])
    /\ UNCHANGED <<checkedOut, faults, clock>>

\* connection.commit() raises: nothing is persisted, the except clause runs.
GwCommitFail(r) ==
    /\ run[r].pc = "gw_commit"
    /\ MayFail
    /\ faults' = faults + 1
    /\ Upd(r, [pc |-> "gw_rollback", exc |-> "QueryFailed",
               injected |-> run[r].injected + 1, rec_failed |-> RecordFailure(r)])
    /\ UNCHANGED <<store, checkedOut, clock>>

\* Variant: the except clause ends without `raise`.
Reraised_swallowed(exc) == "none"

\* The exception the except clause leaves in flight: it ends with `raise`.
Reraised(exc) == exc

\* Variant: the connection's transaction spans everything written so far,
\* and rolling it back empties the tables.
AfterRollback_batch(committed) == <<{}, {}, {}, <<>>>>

\* The tables after connection.rollback(): the transaction of this connection
\* holds the failed statement only, the rows committed before it stay.
AfterRollback(committed) == committed

\* except: connection.rollback(); raise
GwRollback(r) ==
    /\ run[r].pc = "gw_rollback"
    /\ questions' = AfterRollback(store)[1]
    /\ tags' = AfterRollback(store)[2]
    /\ qtags' = AfterRollback(store)[3]
    /\ execs' = AfterRollback(store)[4]
    /\ Upd(r, [pc |-> "gw_close", pending |-> FALSE, exc |-> Reraised(run[r].exc)])
    /\ UNCHANGED <<checkedOut, faults, clock>>

\* connection.rollback() raises inside the except clause: finally still runs.
GwRollbackFail(r) ==
    /\ run[r].pc = "gw_rollback"
    /\ MayFail
    /\ faults' = faults + 1
    /\ Upd(r, [pc |-> "gw_close", injected |-> run[r].injected + 1])
    /\ UNCHANGED <<store, checkedOut, clock>>

\* Variant: _execute_query leaves its connection checked out.
Released_writes(r) == IF run[r].conn /\ run[r].op \notin Queries THEN 1 ELSE 0

\* Variant: the connection is closed on the normal path only (no finally).
Released_normal(r) == IF run[r].conn /\ run[r].exc = "none" THEN 1 ELSE 0

\* The connections `finally: if connection: connection.close()` gives back.
Released(r) == IF run[r].conn THEN 1 ELSE 0

\* finally: close; then return to the caller or raise into it.  Closing a
\* connection whose transaction is still open discards the transaction.
GwClose(r) ==
    /\ run[r].pc = "gw_close"
    /\ checkedOut' = [checkedOut EXCEPT ![r] = @ - Released(r)]
    /\ Upd(r, [pc |-> IF run[r].exc = "none" THEN run[r].ret ELSE run[r].err,
               pending |-> FALSE])
    /\ UNCHANGED <<store, faults, clock>>

Gateway(r) ==
    \/ GwGetOk(r) \/ GwGetFail(r)
    \/ GwExecQuery(r) \/ GwExecWrite(r) \/ GwExecFail(r)
    \/ GwCommit(r) \/ GwCommitFail(r)
    \/ GwRollback(r) \/ GwRollbackFail(r)
    \/ GwClose(r)

\* ------------------------------------------------------ call and return
\* Where a repository method continues when it returns / raises: in
\* process_question, or at the end of a call made directly on the repository.
ReturnTo(top, op, label) == IF top = op THEN "done" ELSE label

\* The record of a finished call, kept while the next one runs.
Finished(r) ==
    [op |-> run[r].top,
     key |-> IF run[r].top = "create_or_update"
             THEN Get(run[r].qd, "question_id", "") ELSE "",
     result |-> run[r].result,
     exc |-> run[r].exc]

CanCall(r) == run[r].pc \in {"idle", "done"} /\ run[r].calls < MaxCalls

\* Run r starts top-level call `top` with the locals u.
Enter(r, top, u) ==
    run' = [run EXCEPT ![r] = u @@ [top |-> top, calls |-> run[r].calls + 1,
                                    prev |-> Finished(r)] @@ IdleRun]

\* ------------------------------------------------- QuestionsRepository
\* question_data["question_id"] = question_data["url"].split("/")[-1]
DerivedQuestionData(qd) ==
    IF "question_id" \notin DOMAIN qd /\ "url" \in DOMAIN qd
    THEN ("question_id" :> LastSegment(qd.url)) @@ qd
    ELSE qd

\* create_or_update up to its lookup: get_by_question_id(question_data["question_id"])
CouEnter(qd, top) ==
    IF "question_id" \notin DOMAIN DerivedQuestionData(qd)
    THEN [pc |-> ReturnTo(top, "create_or_update", "pq_except"), exc |-> "KeyError",
          qd |-> qd]
    ELSE GwCall("sel_q", "cou_found", ReturnTo(top, "create_or_update", "pq_except"))
         @@ [qd |-> DerivedQuestionData(qd)]

\* What create_or_update returns for a row that exists.
ExistingId(existing) == First(existing).id

\* if existing_question: self.update(...); return existing["id"]  else: self.create(...)
CouFound(r) ==
    /\ run[r].pc = "cou_found"
    /\ LET me == run[r]
           back == ReturnTo(me.top, "create_or_update", "pq_cou_ret")
           raise == ReturnTo(me.top, "create_or_update", "pq_except")
       IN IF me.rows # {}
          THEN IF UpdateFields(me.qd) = {}
               THEN \* update() returns False without a statement
                    Upd(r, [pc |-> back, existing |-> me.rows,
                            result |-> ExistingId(me.rows)])
               ELSE Upd(r, GwCall("upd_q", "cou_updated", "cou_updated")
                           @@ [existing |-> me.rows])
          ELSE IF CreateRequired \subseteq DOMAIN me.qd
               THEN Upd(r, GwCall("ins_q", "cou_created", raise) @@ [existing |-> {}])
               ELSE Upd(r, [pc |-> raise, exc |-> "KeyError", existing |-> {}])
    /\ UNCHANGED <<store, checkedOut, faults, clock>>

\* update() returned True, or caught the failure and returned False: either
\* way create_or_update returns existing_question["id"].
CouUpdated(r) ==
    /\ run[r].pc = "cou_updated"
    /\ Upd(r, [pc |-> ReturnTo(run[r].top, "create_or_update", "pq_cou_ret"),
               exc |-> "none", result |-> ExistingId(run[r].existing)])
    /\ UNCHANGED <<store, checkedOut, faults, clock>>

\* return self._execute_write(query, params)
CouCreated(r) ==
    /\ run[r].pc = "cou_created"
    /\ Upd(r, [pc |-> ReturnTo(run[r].top, "create_or_update", "pq_cou_ret"),
               result |-> run[r].val])
    /\ UNCHANGED <<store, checkedOut, faults, clock>>

CallCreateOrUpdate(r) ==
    /\ CanCall(r)
    /\ \E rec \in RepoRecords : Enter(r, "create_or_update", CouEnter(rec, "create_or_update"))
    /\ UNCHANGED <<store, checkedOut, faults, clock>>

CreateOrUpdate(r) == CouFound(r) \/ CouUpdated(r) \/ CouCreated(r)

\* ------------------------------------------------------- TagsRepository
\* create_or_get up to its lookup: get_by_name(name)
CogEnter(n, top) ==
    GwCall("sel_tag", "cog_found", ReturnTo(top, "create_or_get", "pq_except"))
    @@ [name |-> n]

\* if existing_tag: return existing_tag["id"]; return self.create({"name": name})
CogFound(r) ==
    /\ run[r].pc = "cog_found"
    /\ IF run[r].trows # {}
       THEN Upd(r, [pc |-> ReturnTo(run[r].top, "create_or_get", "pq_tag_ret"),
                    result |-> First(run[r].trows).id])
       ELSE Upd(r, GwCall("ins_tag", "cog_created",
                          ReturnTo(run[r].top, "create_or_get", "pq_except")))
    /\ UNCHANGED <<store, checkedOut, faults, clock>>

CogCreated(r) ==
    /\ run[r].pc = "cog_created"
    /\ Upd(r, [pc |-> ReturnTo(run[r].top, "create_or_get", "pq_tag_ret"),
               result |-> run[r].val])
    /\ UNCHANGED <<store, checkedOut, faults, clock>>

CallCreateOrGet(r) ==
    /\ CanCall(r)
    /\ \E n \in TagNames : Enter(r, "create_or_get", CogEnter(n, "create_or_get"))
    /\ UNCHANGED <<store, checkedOut, faults, clock>>

CreateOrGet(r) == CogFound(r) \/ CogCreated(r)

\* ------------------------------------------------ QuestionTagsRepository
\* update_question_tags up to its SELECT of the current tag ids
UqtEnter(q, tag_ids) ==
    GwCall("sel_qt", "uqt_current", "uqt_except") @@ [qid |-> q, desired |-> tag_ids]

tags_to_add(tag_ids, current_tag_ids) == tag_ids \ current_tag_ids
\* Variant: every current association is removed, not only the undesired ones.
tags_to_remove_all(tag_ids, current_tag_ids) == current_tag_ids

tags_to_remove(tag_ids, current_tag_ids) == current_tag_ids \ tag_ids

\* The result update_question_tags returns once its try block has run through.
UqtResult(r) == TRUE

\* current_tag_ids; the differences; remove_tags_from_question if tags_to_remove
UqtCurrent(r) ==
    /\ run[r].pc = "uqt_current"
    /\ LET add == tags_to_add(run[r].desired, run[r].ids)
           rem == tags_to_remove(run[r].desired, run[r].ids)
           locals == [to_add |-> add, to_remove |-> rem]
       IN IF rem # {}
          THEN Upd(r, GwCall("del_qt", "uqt_removed", "uqt_removed") @@ locals)
          ELSE IF add # {}
               THEN Upd(r, GwCall("ins_qt", "uqt_added", "uqt_added") @@ locals)
               ELSE Upd(r, [pc |-> ReturnTo(run[r].top, "update_question_tags", "pq_uqt_ret"),
                            ok |-> UqtResult(r)] @@ locals)
    /\ UNCHANGED <<store, checkedOut, faults, clock>>

\* remove_tags_from_question returned (True, or False after catching the
\* failure); its result is dropped.  add_tags_to_question if tags_to_add.
UqtRemoved(r) ==
    /\ run[r].pc = "uqt_removed"
    /\ IF run[r].to_add # {}
       THEN Upd(r, GwCall("ins_qt", "uqt_added", "uqt_added"))
       ELSE Upd(r, [pc |-> ReturnTo(run[r].top, "update_question_tags", "pq_uqt_ret"),
                    exc |-> "none", ok |-> UqtResult(r)])
    /\ UNCHANGED <<store, checkedOut, faults, clock>>

\* Variant: a failure of add_tags_to_question leaves update_question_tags as
\* an exception.
UqtAdded_raise(r) ==
    /\ run[r].pc = "uqt_added"
    /\ Upd(r, [pc |-> IF run[r].exc # "none"
                      THEN ReturnTo(run[r].top, "update_question_tags", "pq_except")
                      ELSE ReturnTo(run[r].top, "update_question_tags", "pq_uqt_ret"),
               ok |-> UqtResult(r)])
    /\ UNCHANGED <<store, checkedOut, faults, clock>>

\* add_tags_to_question returned (True or False); return True
UqtAdded(r) ==
    /\ run[r].pc = "uqt_added"
    /\ Upd(r, [pc |-> ReturnTo(run[r].top, "update_question_tags", "pq_uqt_ret"),
               exc |-> "none", ok |-> UqtResult(r)])
    /\ UNCHANGED <<store, checkedOut, faults, clock>>

\* except Exception (the SELECT failed): return False
UqtExcept(r) ==
    /\ run[r].pc = "uqt_except"
    /\ Upd(r, [pc |-> ReturnTo(run[r].top, "update_question_tags", "pq_uqt_ret"),
               exc |-> "none", ok |-> FALSE])
    /\ UNCHANGED <<store, checkedOut, faults, clock>>

CallUpdateQuestionTags(r) ==
    /\ CanCall(r)
    /\ \E q \in Ids(questions), tag_ids \in SUBSET Ids(tags) :
          Enter(r, "update_question_tags", UqtEnter(q, tag_ids))
    /\ UNCHANGED <<store, checkedOut, faults, clock>>

UpdateQuestionTags(r) == UqtCurrent(r) \/ UqtRemoved(r) \/ UqtAdded(r) \/ UqtExcept(r)

\* ------------------------------------------------------ process_question
\* process_question up to the lookup inside questions_repo.create_or_update
PqEnter(question_data, top) == CouEnter(question_data, top)

\* return True, question_id / return False, None
PqReturn(r, success) ==
    [pc |-> ReturnTo(run[r].top, "process_question", "lh_pq_ret"),
     success |-> success, exc |-> "none"] @@ RepoLocals

\* question_data.get("tags"): a non-empty list
HasTags(qd) == "tags" \in DOMAIN qd /\ qd.tags # <<>>

\* if not question_id: return False, None; then the first tags_repo.create_or_get
PqCouRet(r) ==
    /\ run[r].pc = "pq_cou_ret"
    /\ LET me == run[r]
           locals == [question_id |-> me.result, tag_ids |-> {}, ti |-> 1]
       IN IF me.result = 0
          THEN Upd(r, PqReturn(r, FALSE) @@ locals)
          ELSE IF HasTags(me.qd)
               THEN Upd(r, CogEnter(me.qd.tags[1], me.top) @@ locals)
               ELSE Upd(r, PqReturn(r, TRUE) @@ locals)
    /\ UNCHANGED <<store, checkedOut, faults, clock>>

\* if tag_id: tag_ids.append(tag_id); next tag, or update_question_tags(set(tag_ids))
PqTagRet(r) ==
    /\ run[r].pc = "pq_tag_ret"
    /\ LET me == run[r]
           ids1 == IF me.result # 0 THEN me.tag_ids \cup {me.result} ELSE me.tag_ids
           locals == [tag_ids |-> ids1, ti |-> me.ti + 1]
       IN IF me.ti < Len(me.qd.tags)
          THEN Upd(r, CogEnter(me.qd.tags[me.ti + 1], me.top) @@ locals)
          ELSE IF ids1 # {}
               THEN Upd(r, UqtEnter(me.question_id, ids1) @@ locals)
               ELSE Upd(r, PqReturn(r, TRUE) @@ locals)
    /\ UNCHANGED <<store, checkedOut, faults, clock>>

\* update_question_tags returned (its result is dropped): return True, question_id
PqUqtRet(r) ==
    /\ run[r].pc = "pq_uqt_ret"
    /\ Upd(r, PqReturn(r, TRUE))
    /\ UNCHANGED <<store, checkedOut, faults, clock>>

\* except Exception: return False, None
PqExcept(r) ==
    /\ run[r].pc = "pq_except"
    /\ Upd(r, PqReturn(r, FALSE) @@ [raised |-> run[r].raised \cup {run[r].i}])
    /\ UNCHANGED <<store, checkedOut, faults, clock>>

ProcessQuestion(r) == PqCouRet(r) \/ PqTagRet(r) \/ PqUqtRet(r) \/ PqExcept(r)

\* -------------------------------------------------------- lambda_handler
\* Batches fetch_questions may return for the two endpoints.
EnglishRecords ==
    {FetchedRecord("q1", "en", 1, <<"a", "b">>),
     FetchedRecord("q2", "en", 1, <<>>),
     WithDescription(FetchedRecord("q1", "en", 2, <<"b">>))}

ChineseRecords == {FetchedRecord("q2", "zh-Hant", 1, <<"a">>)}

SeqsUpTo(S, n) == UNION {[1..k -> S] : k \in 0..n}

\* Variant: the audit status ignores the archival result.
AuditStatus_success(s3_success) == "success"

\* "status": "success" if s3_success else "error"
AuditStatus(s3_success) == IF s3_success THEN "success" ELSE "error"

\* int((datetime.now(timezone.utc) - start_time).total_seconds() * 1000)
DurationMs(start_time, now) == now - start_time

\* start_time; fetch_questions for both endpoints; processed_count = 0
CallLambdaHandler(r) ==
    /\ run[r].pc = "idle"
    /\ \E questions_en \in SeqsUpTo(EnglishRecords, MaxBatch),
          questions_zh \in SeqsUpTo(ChineseRecords, 1) :
          /\ Enter(r, "lambda_handler",
                   [pc |-> "lh_loop", start_time |-> clock,
                    all_questions |-> questions_en \o questions_zh,
                    english_questions |-> Len(questions_en),
                    chinese_questions |-> Len(questions_zh),
                    i |-> 1, processed_count |-> 0, base |-> Len(execs)])
    /\ UNCHANGED <<store, checkedOut, faults, clock>>

\* for question in all_questions: success, _ = process_question(question)
LhLoop(r) ==
    /\ run[r].pc = "lh_loop"
    /\ run[r].i <= Len(run[r].all_questions)
    /\ Upd(r, PqEnter(run[r].all_questions[run[r].i], run[r].top)
              @@ [attempted |-> Append(run[r].attempted, run[r].i)])
    /\ UNCHANGED <<store, checkedOut, faults, clock>>

\* Variant: every record is counted, whatever process_question returned.
Counted_always(processed_count, success) == processed_count + 1

\* The count after one process_question returned `success`.
Counted(processed_count, success) ==
    IF success THEN processed_count + 1 ELSE processed_count

\* if success: processed_count += 1
LhPqRet(r) ==
    /\ run[r].pc = "lh_pq_ret"
    /\ Upd(r, [pc |-> "lh_loop", i |-> run[r].i + 1, rec_failed |-> FALSE,
               processed_count |-> Counted(run[r].processed_count, run[r].success)])
    /\ UNCHANGED <<store, checkedOut, faults, clock>>

\* save_to_s3 (False for an empty batch or when the upload raises), then
\* execution_data and crawler_executions_repo.create(execution_data)
LhRecord(r) ==
    /\ run[r].pc = "lh_loop"
    /\ run[r].i > Len(run[r].all_questions)
    /\ \E now \in clock..MaxClock,
          s3_success \in (IF run[r].all_questions = <<>> THEN {FALSE} ELSE BOOLEAN) :
          /\ clock' = now
          /\ Upd(r, GwCall("ins_exec", "lh_recorded", "lh_except")
                    @@ [s3_success |-> s3_success,
                        execution_data |->
                          [start_time |-> run[r].start_time,
                           end_time |-> now,
                           questions_processed |-> run[r].processed_count,
                           english_questions |-> run[r].english_questions,
                           chinese_questions |-> run[r].chinese_questions,
                           status |-> AuditStatus(s3_success),
                           duration_ms |-> DurationMs(run[r].start_time, now),
                           output_file |-> IF s3_success THEN "questions.json" ELSE ""]])
    /\ UNCHANGED <<store, checkedOut, faults>>

\* return {"statusCode": 200, ...}
LhRecorded(r) ==
    /\ run[r].pc = "lh_recorded"
    /\ Upd(r, [pc |-> "done", statusCode |-> 200])
    /\ UNCHANGED <<store, checkedOut, faults, clock>>

\* Variant: the insert of the error row is not wrapped in its own try.
ErrorRecordRaisesTo_uncaught == "done"

\* Where an exception of the error row's insert goes: to the inner
\* `except Exception as ex`, which logs it.
ErrorRecordRaisesTo == "lh_failed"

\* except Exception as e: the error execution_data, then create() inside try
LhExcept(r) ==
    /\ run[r].pc = "lh_except"
    /\ \E now \in clock..MaxClock :
          /\ clock' = now
          /\ Upd(r, GwCall("ins_exec", "lh_failed", ErrorRecordRaisesTo)
                    @@ [audit_failed |-> run[r].audit_failed + 1,
                        execution_data |->
                          [start_time |-> run[r].start_time,
                           end_time |-> now,
                           questions_processed |-> 0,
                           english_questions |-> 0,
                           chinese_questions |-> 0,
                           status |-> "error",
                           error_message |-> run[r].exc,
                           duration_ms |-> DurationMs(run[r].start_time, now),
                           output_file |-> ""]])
    /\ UNCHANGED <<store, checkedOut, faults>>

\* the error row was recorded, or recording failed and was logged:
\* return {"statusCode": 500, ...}
LhFailed(r) ==
    /\ run[r].pc = "lh_failed"
    /\ Upd(r, [pc |-> "done", statusCode |-> 500, exc |-> "none",
               audit_failed |-> IF run[r].exc = "none" THEN run[r].audit_failed
                                ELSE run[r].audit_failed + 1])
    /\ UNCHANGED <<store, checkedOut, faults, clock>>

LambdaHandler(r) ==
    \/ LhLoop(r) \/ LhPqRet(r) \/ LhRecord(r) \/ LhRecorded(r)
    \/ LhExcept(r) \/ LhFailed(r)

\* One run of the handler at a time (one Lambda invocation after another).
RunStep(r) ==
    \/ CallLambdaHandler(r) \/ LambdaHandler(r) \/ ProcessQuestion(r)
    \/ CreateOrUpdate(r) \/ CreateOrGet(r) \/ UpdateQuestionTags(r)
    \/ Gateway(r)

InitRun ==
    /\ Init
    /\ questions \in {{}, {InitQuestion(1, "q1")}}
    /\ Cardinality(tags) <= 1

NextRun == RunStep(1)
SpecRun == InitRun /\ [][NextRun]_vars

\* An invocation on a store that holds nothing yet; it keeps executing: every
\* call it makes returns or raises.
InitRunLive ==
    /\ Init
    /\ questions = {}
    /\ tags = {}

SpecRunLive == InitRunLive /\ [][NextRun]_vars /\ WF_vars(NextRun)

\* ------------------------------------- calls made directly on a repository
RepoStep(r) ==
    \/ CallCreateOrUpdate(r) \/ CallCreateOrGet(r) \/ CallUpdateQuestionTags(r)
    \/ CreateOrUpdate(r) \/ CreateOrGet(r) \/ UpdateQuestionTags(r)
    \/ Gateway(r)

\* One caller at a time.
NextRepo == RepoStep(1)
SpecRepo == Init /\ [][NextRepo]_vars

\* ------------------------------------------ calls of process_question
\* A record that has no "tags" key.
WithoutTags(rec) == [k \in DOMAIN rec \ {"tags"} |-> rec[k]]

\* Records handed to process_question: with tags, with an empty tag list,
\* without a tag list.
ProcessRecords ==
    {FetchedRecord("q1", "en", 1, <<"a", "b">>),
     FetchedRecord("q1", "en", 2, <<>>),
     WithoutTags(FetchedRecord("q1", "en", 3, <<>>)),
     FetchedRecord("q2", "en", 1, <<"b">>)}

CallProcessQuestion(r) ==
    /\ CanCall(r)
    /\ \E rec \in ProcessRecords :
          Enter(r, "process_question",
                PqEnter(rec, "process_question")
                @@ [before |-> <<questions, tags, qtags>>])
    /\ UNCHANGED <<store, checkedOut, faults, clock>>

NextProcess ==
    \/ CallProcessQuestion(1) \/ ProcessQuestion(1)
    \/ CreateOrUpdate(1) \/ CreateOrGet(1) \/ UpdateQuestionTags(1)
    \/ Gateway(1)

SpecProcess == Init /\ [][NextProcess]_vars

\* ------------------------------------------------------ concurrent callers
\* Runs that upsert questions at the same time.
ConcRecords ==
    {FetchedRecord("q1", "en", 1, <<>>), FetchedRecord("q2", "en", 1, <<>>)}

CallConcCreateOrUpdate(r) ==
    /\ CanCall(r)
    /\ \E rec \in ConcRecords : Enter(r, "create_or_update", CouEnter(rec, "create_or_update"))
    /\ UNCHANGED <<store, checkedOut, faults, clock>>

InitQuestionRace ==
    /\ Init
    /\ questions = {}
    /\ tags = {}

NextQuestionRace ==
    \E r \in Runs : CallConcCreateOrUpdate(r) \/ CreateOrUpdate(r) \/ Gateway(r)

SpecQuestionRace == InitQuestionRace /\ [][NextQuestionRace]_vars

\* Runs that resolve tag names at the same time, from an empty tags table.
InitTagRace ==
    /\ Init
    /\ questions = {}
    /\ tags = {}

NextTagRace ==
    \E r \in Runs : CallCreateOrGet(r) \/ CreateOrGet(r) \/ Gateway(r)

SpecTagRace == InitTagRace /\ [][NextTagRace]_vars

\* Runs that reconcile the tags of question 1 at the same time; tags a and b exist.
InitReconcileRace ==
    /\ Init
    /\ questions = {InitQuestion(1, "q1")}
    /\ Cardinality(tags) = 2

CallConcUpdateQuestionTags(r) ==
    /\ CanCall(r)
    /\ \E tag_ids \in SUBSET Ids(tags) :
          Enter(r, "update_question_tags", UqtEnter(1, tag_ids))
    /\ UNCHANGED <<store, checkedOut, faults, clock>>

NextReconcileRace ==
    \E r \in Runs : CallConcUpdateQuestionTags(r) \/ UpdateQuestionTags(r) \/ Gateway(r)

SpecReconcileRace == InitReconcileRace /\ [][NextReconcileRace]_vars

\* ================================================================= claims
GatewayLabels == {"gw_get", "gw_exec", "gw_commit", "gw_rollback", "gw_close"}

Returned(r, top) == run[r].pc = "done" /\ run[r].top = top

\* The tag ids associated with question q.
TagsOf(q) == {p[2] : p \in {x \in qtags : x[1] = q}}

RowsWithQuestionId(key) == {row \in questions : row.question_id = key}

\* C1: a create_or_update that returns leaves exactly one row with the record's
\* external identifier and returns that row's internal id; when the call before
\* it was a create_or_update for the same identifier that also returned, both
\* returned the same id.
C1_UpsertIdempotent ==
    \A r \in Runs :
        (Returned(r, "create_or_update") /\ run[r].exc = "none") =>
            LET me == run[r]
                found == RowsWithQuestionId(me.qd.question_id)
            IN /\ Cardinality(found) = 1
               /\ me.result = First(found).id
               /\ (me.prev.op = "create_or_update" /\ me.prev.exc = "none"
                   /\ me.prev.key = me.qd.question_id) => me.result = me.prev.result

\* Two upserts in a row for "q2" on an empty table, the first of which created
\* the row from a record without question_id (the identifier is the last URL
\* segment).
C1_Witness ==
    /\ Returned(1, "create_or_update") /\ run[1].exc = "none"
    /\ run[1].prev.op = "create_or_update" /\ run[1].prev.exc = "none"
    /\ run[1].prev.key = "q2" /\ run[1].qd.question_id = "q2"
    /\ \E row \in questions : row.question_id = "q2" /\ row.title = "t2" /\ row.id = 1
    /\ run[1].result = 1

\* C2: after create_or_update found the row for the record's identifier, every
\* field_map column whose key is absent from the record, and question_id and
\* id, still hold the value the lookup read; every column whose key is present
\* holds the record's value unless the UPDATE statement failed.
C2_PartialUpdate ==
    \A r \in Runs :
        (Returned(r, "create_or_update") /\ run[r].existing # {}) =>
            LET me == run[r]
                old == First(me.existing)
            IN \E new \in questions :
                  /\ new.id = old.id
                  /\ new.question_id = old.question_id
                  /\ \A c \in field_map \ DOMAIN me.qd : new[c] = old[c]
                  /\ me.injected = 0 =>
                        \A c \in field_map \cap DOMAIN me.qd : new[c] = me.qd[c]

\* {question_id: "q1", view_count: 5} over the full row of "q1".
C2_Witness ==
    /\ Returned(1, "create_or_update")
    /\ run[1].existing # {}
    /\ run[1].qd = [question_id |-> "q1", view_count |-> 5]
    /\ \E row \in questions :
          row.question_id = "q1" /\ row.view_count = 5 /\ row.title = "title"

\* C3: with one caller and no failing statement, update_question_tags(q, S)
\* returns with the association set of q equal to S, and while it runs no
\* association of q with a tag of S is removed.
C3_TagConvergence ==
    /\ [](\A r \in Runs :
            (Returned(r, "update_question_tags") /\ run[r].injected = 0) =>
                TagsOf(run[r].qid) = run[r].desired)
    /\ [][\A r \in Runs :
            (run[r].top = "update_question_tags" /\ run[r].pc \notin {"idle", "done"}) =>
                \A t \in run[r].desired :
                    <<run[r].qid, t>> \in qtags => <<run[r].qid, t>> \in qtags']_vars

\* {a, b} reconciled to {b, c}: a removed, c added.
C3_Witness ==
    /\ Returned(1, "update_question_tags") /\ run[1].injected = 0
    /\ run[1].desired = {2, 3}
    /\ run[1].to_remove = {1} /\ run[1].to_add = {3}
    /\ TagsOf(run[1].qid) = {2, 3}

\* C4: whenever update_question_tags returns True, the association set of its
\* question equals the desired set.
C4_SuccessIsTruthful ==
    \A r \in Runs :
        (Returned(r, "update_question_tags") /\ run[r].ok) =>
            TagsOf(run[r].qid) = run[r].desired

\* C5: with one caller and no failing statement, update_question_tags(q, {})
\* returns with no association of q left; while it runs it inserts no
\* association row and changes no row of another question.
C5_EmptyDesiredSet ==
    /\ [](\A r \in Runs :
            (Returned(r, "update_question_tags") /\ run[r].desired = {}
             /\ run[r].injected = 0) => TagsOf(run[r].qid) = {})
    /\ [][\A r \in Runs :
            (run[r].top = "update_question_tags" /\ run[r].desired = {}
             /\ run[r].pc \notin {"idle", "done"}) =>
                /\ qtags' \subseteq qtags
                /\ \A p \in qtags : p[1] # run[r].qid => p \in qtags']_vars

\* Question 1 had associations, question 2 keeps its own.
C5_Witness ==
    /\ Returned(1, "update_question_tags") /\ run[1].injected = 0
    /\ run[1].desired = {} /\ run[1].qid = 1
    /\ Cardinality(run[1].to_remove) = 2
    /\ qtags = {<<2, 1>>}

\* C6: once the loop of lambda_handler is over, every batch position was handed
\* to process_question, in order; processed_count is the batch length minus the
\* positions whose processing raised; and the audit row written on the normal
\* path carries that count and has status 'success' whenever archival succeeded.
LoopOver(r) == run[r].top = "lambda_handler" /\ run[r].i > Len(run[r].all_questions)

C6_PartialFailureIsolation ==
    \A r \in Runs :
        LoopOver(r) =>
            LET me == run[r]
                n == Len(me.all_questions)
            IN /\ me.attempted = [k \in 1..n |-> k]
               /\ me.processed_count = n - Cardinality(me.raised)
               /\ me.pc = "lh_recorded" =>
                     /\ execs[Len(execs)].questions_processed = n - Cardinality(me.raised)
                     /\ me.s3_success => execs[Len(execs)].status = "success"

\* Three records, the second raised: two processed, status success.
C6_Witness ==
    /\ run[1].pc = "lh_recorded"
    /\ Len(run[1].all_questions) = 3
    /\ run[1].raised = {2}
    /\ execs[Len(execs)].questions_processed = 2
    /\ execs[Len(execs)].status = "success"

\* The audit rows run r has added since it started.
NewAuditRows(r) == Len(execs) - run[r].base

AuditRowMatches(r) ==
    LET row == execs[Len(execs)]
    IN /\ row.status = (IF run[r].s3_success /\ run[r].statusCode = 200
                        THEN "success" ELSE "error")
       /\ row.duration_ms >= 0

\* C7 (as stated): every invocation of lambda_handler ends with exactly one new
\* audit row, whose status matches the outcome and whose duration is >= 0.
C7_ExactlyOneAuditRow ==
    \A r \in Runs :
        Returned(r, "lambda_handler") => NewAuditRows(r) = 1 /\ AuditRowMatches(r)

\* C7 (amended): an invocation ends with no new audit row when both of its
\* audit inserts failed and with exactly one otherwise; that row's status
\* matches the outcome and its duration is >= 0.
C7_AtMostOneAuditRow ==
    \A r \in Runs :
        Returned(r, "lambda_handler") =>
            /\ NewAuditRows(r) = (IF run[r].audit_failed = 2 THEN 0 ELSE 1)
            /\ NewAuditRows(r) = 1 => AuditRowMatches(r)

\* The first audit insert failed after a successful archival; the insert of
\* the exception handler wrote the one row, with status 'error'.
C7_Witness ==
    /\ Returned(1, "lambda_handler")
    /\ run[1].audit_failed = 1 /\ run[1].s3_success /\ run[1].statusCode = 500
    /\ NewAuditRows(1) = 1
    /\ execs[Len(execs)].status = "error"

\* C8: two runs whose first call was create_or_get of the same name, on a tags
\* table that was empty, with no injected failure: both return the same id and
\* one row has the name.
C8_TagUniqueness ==
    \A r1, r2 \in Runs :
        (/\ r1 # r2
         /\ Returned(r1, "create_or_get") /\ Returned(r2, "create_or_get")
         /\ run[r1].calls = 1 /\ run[r2].calls = 1
         /\ run[r1].name = run[r2].name
         /\ run[r1].injected = 0 /\ run[r2].injected = 0) =>
            /\ run[r1].exc = "none" /\ run[r2].exc = "none"
            /\ run[r1].result = run[r2].result
            /\ Cardinality({row \in tags : row.name = run[r1].name}) = 1

\* C9: the questions table never holds two rows with one external identifier.
C9_QuestionUniqueness ==
    \A x, y \in questions : x.question_id = y.question_id => x = y

\* A run whose lookup found nothing had its insert refused by the constraint:
\* another run inserted the identifier in between.
C9_Witness ==
    \E r \in Runs :
        /\ Returned(r, "create_or_update")
        /\ run[r].exc = "QueryFailed" /\ run[r].injected = 0
        /\ run[r].existing = {}
        /\ Cardinality(RowsWithQuestionId(run[r].qd.question_id)) = 1

\* C10: a run that is not inside a gateway call has no connection checked out.
C10_ConnectionsReturned ==
    \A r \in Runs : run[r].pc \notin GatewayLabels => checkedOut[r] = 0

\* A write whose statement failed and whose rollback failed too.
C10_Witness ==
    /\ Returned(1, "create_or_update")
    /\ run[1].exc = "QueryFailed" /\ run[1].injected = 2 /\ run[1].conn
    /\ checkedOut[1] = 0

\* A write call of the gateway has just handed control back to its caller.
AtGatewayReturn(r) ==
    /\ run[r].op \notin Queries \cup {"none"}
    /\ run[r].pc \in {run[r].ret, run[r].err}

\* C11: a write or bulk-write call of the gateway comes back without an
\* exception exactly when its statement was committed; the store changes only
\* in the commit step of such a call, which then applies the whole statement
\* (every row of a bulk insert), so a call that raises has persisted nothing.
C11_CommitOrRollback ==
    /\ [](\A r \in Runs :
            AtGatewayReturn(r) => ((run[r].exc = "none") <=> run[r].persisted))
    /\ [][store' # store =>
            \E r \in Runs :
                /\ run[r].pc = "gw_commit" /\ ~run[r].persisted
                /\ run'[r].pc = "gw_close" /\ run'[r].persisted /\ run'[r].exc = "none"
                /\ run[r].op = "ins_qt" => ({run[r].qid} \X run[r].to_add) \subseteq qtags'
                /\ run[r].op = "del_qt" =>
                      qtags' \cap ({run[r].qid} \X run[r].to_remove) = {}]_vars

\* A bulk insert of two association rows failed and raised into
\* add_tags_to_question: neither row is in the table.
C11_Witness ==
    /\ run[1].pc = "uqt_added" /\ run[1].op = "ins_qt"
    /\ run[1].exc = "QueryFailed" /\ ~run[1].persisted
    /\ Cardinality(run[1].to_add) = 2
    /\ TagsOf(run[1].qid) \cap run[1].to_add = {}

\* C12: the invocation of lambda_handler comes to its end, whatever was
\* fetched and whichever database calls, archival or audit inserts fail; it
\* ends with a response of status 200 or 500 and with no exception in flight.
C12_TotalHandler ==
    /\ [](Returned(1, "lambda_handler") =>
            run[1].statusCode \in {200, 500} /\ run[1].exc = "none")
    /\ <>Returned(1, "lambda_handler")

\* Total failure: nothing fetched, archival refused, both audit inserts
\* failed; the response is 500.
C12_Witness ==
    /\ Returned(1, "lambda_handler")
    /\ run[1].all_questions = <<>> /\ ~run[1].s3_success
    /\ run[1].audit_failed = 2 /\ run[1].statusCode = 500
    /\ Len(execs) = run[1].base

\* C13: when an audit insert failed in an invocation whose loop ran through
\* and whose archival succeeded, the response is still 200 and the run has
\* written no audit row of status 'error'.
C13_AuditFailureNotMasking ==
    \A r \in Runs :
        (Returned(r, "lambda_handler") /\ run[r].s3_success /\ run[r].audit_failed >= 1) =>
            /\ run[r].statusCode = 200
            /\ \A k \in (run[r].base + 1)..Len(execs) : execs[k].status # "error"

\* Run r is handling the failure of a statement, or of a whole record.
Failing(r) == run[r].exc # "none" \/ run[r].pc \in {"gw_rollback", "pq_except"}

C15_RunLevelAbort ==
    /\ [][\A r \in Runs :
            run[r].conn_lost => run'[r].attempted = run[r].attempted]_vars
    /\ [](\A r \in Runs :
            (Returned(r, "lambda_handler") /\ run[r].conn_lost) =>
                /\ run[r].statusCode = 500
                /\ \A k \in (run[r].base + 1)..Len(execs) : execs[k].status = "error")

\* The archival step of run r is behind it (execution_data is built right after).
Archived(r) == run[r].execution_data # <<>>

\* C16: in a run of the handler the archival step comes after every record of
\* the batch was attempted, an audit row is written only after the archival
\* step, and every audit row of the run has status 'success' if archival
\* reported success and 'error' if it did not (no exception can leave the
\* per-record loop: process_question catches them all).
C16_RunStateMachine ==
    \A r \in Runs :
        run[r].top = "lambda_handler" =>
            /\ Archived(r) =>
                  run[r].attempted = [k \in 1..Len(run[r].all_questions) |-> k]
            /\ NewAuditRows(r) > 0 => Archived(r)
            /\ \A k \in (run[r].base + 1)..Len(execs) :
                  execs[k].status = (IF run[r].s3_success THEN "success" ELSE "error")

\* C17: a record during whose processing a write statement failed (the
\* question insert or update, a tag insert, the association delete or insert:
\* connection not acquired, statement or commit failed) does not raise
\* processed_count.
C17_FailedRecordNotCounted ==
    [][\A r \in Runs :
          (run[r].pc = "lh_pq_ret" /\ run[r].rec_failed) =>
              run'[r].processed_count = run[r].processed_count]_vars

\* C18: a create_or_get whose insert was issued without any injected failure
\* (so that only the uniqueness of the name can have refused it) and whose
\* name is in the table when it ends, ends by returning the id of that row.
C18_RetryOnTagRace ==
    \A r \in Runs :
        (/\ Returned(r, "create_or_get")
         /\ run[r].op = "ins_tag" /\ run[r].injected = 0
         /\ TagNameTaken(run[r].name)) =>
            /\ run[r].exc = "none"
            /\ \E row \in tags : row.name = run[r].name /\ row.id = run[r].result

\* C19: for an update_question_tags call that has both associations to remove
\* and associations to add, the table never shows the removals without the
\* additions: while the call runs and after it has ended, if none of the rows
\* to remove is left then every row to add is there.
C19_ReconciliationAtomic ==
    \A r \in Runs :
        (run[r].to_remove # {} /\ run[r].to_add # {}) =>
            (qtags \cap ({run[r].qid} \X run[r].to_remove) = {} =>
                ({run[r].qid} \X run[r].to_add) \subseteq qtags)

\* C20: every audit row a run of the handler writes, by the normal path or by
\* the exception handler, carries in questions_processed the number of
\* records the run counted as processed.
C20_AuditRowCarriesSummary ==
    \A r \in Runs :
        run[r].top = "lambda_handler" =>
            \A k \in (run[r].base + 1)..Len(execs) :
                execs[k].questions_processed = run[r].processed_count

\* The step by which process_question returns to its caller.
PqReturning(r) ==
    /\ run[r].pc \in {"pq_cou_ret", "pq_tag_ret", "pq_uqt_ret", "pq_except"}
    /\ run'[r].pc \in {"done", "lh_pq_ret"}

\* The internal id of the question the returning process_question handled.
PqQuestionId(r) ==
    IF run[r].pc = "pq_cou_ret" THEN run[r].result ELSE run[r].question_id

\* The tag ids it resolved from the record's tag list (none for an empty or
\* absent list).
PqResolved(r) == IF run[r].pc = "pq_uqt_ret" THEN run[r].tag_ids ELSE {}

\* C21: when process_question returns success for a record, none of whose
\* database calls failed, the association set of the record's question is the
\* set of tag ids resolved from the record's tag list (the empty set for an
\* empty or absent list).
C21_PipelineReconciliation ==
    [][\A r \in Runs :
          (PqReturning(r) /\ run'[r].success /\ run[r].injected = 0) =>
              TagsOf(PqQuestionId(r)) = PqResolved(r)]_vars

\* C22: every audit row of status 'error' that a run of the handler writes
\* has an error_message that is not NULL.
C22_ErrorMessageOnFailure ==
    \A r \in Runs :
        run[r].top = "lambda_handler" =>
            \A k \in (run[r].base + 1)..Len(execs) :
                execs[k].status = "error" => execs[k].error_message # Null

\* C23: when two runs have each made one update_question_tags call on the same
\* question, with no failing statement, and both calls have returned, the
\* association set of the question is the desired set of one of them.
C23_ReconcileSerializable ==
    \A r1, r2 \in Runs :
        (/\ r1 # r2
         /\ Returned(r1, "update_question_tags") /\ Returned(r2, "update_question_tags")
         /\ run[r1].calls = 1 /\ run[r2].calls = 1
         /\ run[r1].qid = run[r2].qid
         /\ run[r1].injected = 0 /\ run[r2].injected = 0) =>
            TagsOf(run[r1].qid) \in {run[r1].desired, run[r2].desired}

\* A process_question called on its own is in its except clause, about to
\* return (False, None).
PqFailing(r) == run[r].top = "process_question" /\ run[r].pc = "pq_except"

\* C24 (as stated): when process_question returns failure, the questions,
\* tags and question_tags tables are as they were when it was called.
C24_FailureLeavesNoTrace ==
    \A r \in Runs :
        PqFailing(r) => <<questions, tags, qtags>> = run[r].before

\* C24 (amended): when process_question returns failure, the tables are as
\* they were when it was called if create_or_update raised; otherwise they
\* differ from then at most by the row of the record's question (inserted or
\* updated) and by tags created for the record: no other question row is
\* changed, no tag is removed and no association is changed.
C24_FailureKeepsCommitted ==
    \A r \in Runs :
        PqFailing(r) =>
            LET b == run[r].before
                q == run[r].question_id
            IN /\ qtags = b[3]
               /\ b[2] \subseteq tags
               /\ \A row \in b[1] : row.id # q => row \in questions
               /\ \A row \in questions : row.id # q => row \in b[1]
               /\ q = 0 => (questions = b[1] /\ tags = b[2])

\* On empty tables: the question was inserted and tag a created, then the
\* resolution of tag b failed.
C24_Witness ==
    /\ PqFailing(1)
    /\ run[1].before = <<{}, {}, {}>>
    /\ run[1].question_id = 1 /\ run[1].ti = 2
    /\ Cardinality(questions) = 1
    /\ tags = {[id |-> 1, name |-> "a"]}

\* C25: a run never has more than one connection checked out of its pool, and
\* has none when it asks for one: each gateway call gives its connection back
\* before the next call of the chain starts, so the run's own calls never find
\* the pool of PoolSize connections empty.
C25_OneConnectionAtATime ==
    \A r \in Runs :
        /\ checkedOut[r] <= 1
        /\ checkedOut[r] < PoolSize
        /\ run[r].pc = "gw_get" => checkedOut[r] = 0

\* The second record of a batch, inside update_question_tags: after the
\* lookups and writes of the question and of two tags and the SELECT of the
\* associations, the bulk insert holds the run's one connection.
C25_Witness ==
    /\ run[1].top = "lambda_handler" /\ run[1].i = 2
    /\ run[1].pc = "gw_exec" /\ run[1].op = "ins_qt"
    /\ Cardinality(run[1].tag_ids) = 2
    /\ checkedOut[1] = 1

====
